---- MODULE Spec2Model ----
(***************************************************************************)
(* Model of the UML-to-SQLAlchemy converter: the version history of a      *)
(* ProcessingResult (src/gui.py) and the conversion worker with the        *)
(* MainWindow handlers that start, stop and receive it (src/gui.py).       *)
(***************************************************************************)
EXTENDS Integers, Sequences, FiniteSets, TLC

(***************************************************************************)
(* Bounds of the model.                                                    *)
(***************************************************************************)
\* Longest history a commit may produce.
MaxHistory == 3

\* Texts an operator may commit through the code setter.
Texts == {"v1", "v2", "v3", "v4"}

\* What a ProcessingResult is constructed with: an error text (a str) or a
\* SQLAlchemyModels artifact, of which only the code text matters here.
ErrorText == "err"
Datas == {[is_str |-> TRUE, text |-> ErrorText], [is_str |-> FALSE, text |-> "v1"]}

Ops == {"init", "commit", "undo", "redo", "restore_original"}

\* Most image paths one scan of the folder returns.
MaxImages == 3

\* Most ConversionThreads created in one session.
MaxRuns == 2

\* Most image paths one scan returns in a session with several conversions.
MaxImagesSession == 2

ThreadIds == 1..MaxRuns

Modes == {"combined", "separate"}

VARIABLES
    result,     \* the ProcessingResult: history, current_version, original_code, is_error
    data,       \* the data the ProcessingResult was constructed with
    lastOp,     \* the last operation called on the result
    lastArg,    \* its argument (the committed text), "" when it has none
    lastRet,    \* its return value, "" when it has none
    before,     \* the result as it was before lastOp
    prevOp,     \* the operation called before lastOp
    before2     \* the result as it was before prevOp

histVars == <<result, data, lastOp, lastArg, lastRet, before, prevOp, before2>>

VARIABLES
    threads,               \* every ConversionThread created so far, by id
    conversion_thread,     \* MainWindow.conversion_thread: a thread id, 0 for None
    results,               \* MainWindow.results
    current_result_index,  \* MainWindow.current_result_index
    start_btn,             \* whether the start button is enabled
    stop_btn,              \* whether the stop button is enabled
    llm,                   \* whether MainWindow.llm and parser are set
    guiPc,                 \* where the GUI thread is: idle, or blocked in a wait(2000)
    queue                  \* signals emitted by workers, not yet delivered to the GUI thread

convVars == <<threads, conversion_thread, results, current_result_index,
              start_btn, stop_btn, llm, guiPc, queue>>

VARIABLES
    is_dir,     \* whether the folder path given to process_folder is a directory
    listing,    \* what os.listdir gives for it: the entry names, each once
    scanned     \* what process_folder did: not called, raised, or the list returned

folderVars == <<is_dir, listing, scanned>>

VARIABLES
    job,        \* one run: the mode, the scanned paths, and what uploads and service will do
    emitted,    \* what ConversionThread.run() emitted with result_ready for the job
    console,    \* what run_console_app() did with the job
    files       \* the files save_code() and save_all_results() wrote for the emitted results

chainVars == <<job, emitted, console, files>>

VARIABLES
    config,     \* MainWindow.config: the one ModelConfig object of the window
    saved,      \* save_settings(): the calls so far, whether the last raised, the config before it
    carried,    \* the run: whether started, the config at its start, the results made
    client      \* MainWindow.llm: whether made, and the values it was made with

settingsVars == <<config, saved, carried, client>>

VARIABLES
    DEFAULT_SYSTEM_PROMPT,  \* the content of prompts/system_prompt.txt
    system_prompt,          \* MainWindow.system_prompt, or the one init_application returns
    prompt_edit,            \* the text of the prompt field
    assembled               \* the last assembly: its source text, the prompt before it, the warning

promptVars == <<DEFAULT_SYSTEM_PROMPT, system_prompt, prompt_edit, assembled>>

\* The variables of the functions modelled on their own.
VARIABLES
    window,     \* the result views of the MainWindow: results, index, code view, buttons
    lastEdit    \* the last handler that ran on them

editVars == <<window, lastEdit>>

pureVars == <<folderVars, chainVars, settingsVars, promptVars, editVars>>

vars == <<histVars, convVars, pureVars>>

(***************************************************************************)
(* ProcessingResult (src/gui.py).  current_version is the 0-based index of *)
(* the code, so the current text is history[current_version + 1] here.     *)
(***************************************************************************)
ProcessingResult(d) ==
    [history          |-> <<d.text>>,
     current_version  |-> 0,
     original_code    |-> d.text,
     is_error         |-> d.is_str]

\* The code property: self.history[self.current_version].  Indexing outside
\* the history raises IndexError in the source; here it is marked.
code(r) ==
    IF r.current_version + 1 \in DOMAIN r.history
    THEN r.history[r.current_version + 1]
    ELSE "IndexError"

\* A code setter that appends without discarding the entries after the pointer.
setCodeNoTruncate(r, value) ==
    [r EXCEPT !.history = Append(r.history, value),
              !.current_version = r.current_version + 1]

\* The code setter.
setCode(r, value) ==
    IF Len(r.history) = r.current_version + 1
    THEN [r EXCEPT !.history = Append(r.history, value),
                   !.current_version = r.current_version + 1]
    ELSE [r EXCEPT !.history = Append(SubSeq(r.history, 1, r.current_version + 1), value),
                   !.current_version = r.current_version + 1]

\* A restore_original that also drops the versions after the original.
restore_originalTruncates(r) ==
    [pr |-> [r EXCEPT !.current_version = 0, !.history = <<r.history[1]>>],
     ret |-> r.original_code]

\* A restore_original that returns the original but leaves the pointer.
restore_originalKeepsPointer(r) ==
    [pr |-> r, ret |-> r.original_code]

restore_original(r) ==
    [pr |-> [r EXCEPT !.current_version = 0], ret |-> r.original_code]

\* An undo without the guard on the pointer.
undoUnguarded(r) ==
    LET r2 == [r EXCEPT !.current_version = r.current_version - 1]
    IN [pr |-> r2, ret |-> code(r2)]

undo(r) ==
    LET r2 == IF r.current_version > 0
              THEN [r EXCEPT !.current_version = r.current_version - 1]
              ELSE r
    IN [pr |-> r2, ret |-> code(r2)]

\* A redo that returns the current text without moving the pointer.
redoStays(r) ==
    [pr |-> r, ret |-> code(r)]

redo(r) ==
    LET r2 == IF r.current_version < Len(r.history) - 1
              THEN [r EXCEPT !.current_version = r.current_version + 1]
              ELSE r
    IN [pr |-> r2, ret |-> code(r2)]

\* A has_undo that does not look at the pointer.
has_undoAlways(r) == TRUE

has_undo(r) == r.current_version > 0

has_redo(r) == r.current_version < Len(r.history) - 1

(***************************************************************************)
(* One ProcessingResult under any sequence of its operations.              *)
(***************************************************************************)
HistInit ==
    /\ data \in Datas
    /\ result = ProcessingResult(data)
    /\ lastOp = "init"
    /\ lastArg = ""
    /\ lastRet = ""
    /\ before = result
    /\ prevOp = "init"
    /\ before2 = result

Record(op, arg, ret, r2) ==
    /\ result' = r2
    /\ lastOp' = op
    /\ lastArg' = arg
    /\ lastRet' = ret
    /\ before' = result
    /\ prevOp' = lastOp
    /\ before2' = before
    /\ UNCHANGED <<data, convVars, pureVars>>

Commit ==
    \E value \in Texts :
        /\ result.current_version + 2 <= MaxHistory
        /\ Record("commit", value, "", setCode(result, value))

Undo == Record("undo", "", undo(result).ret, undo(result).pr)

Redo == Record("redo", "", redo(result).ret, redo(result).pr)

RestoreOriginal ==
    Record("restore_original", "", restore_original(result).ret, restore_original(result).pr)

HistNext == Commit \/ Undo \/ Redo \/ RestoreOriginal

(***************************************************************************)
(* ConversionThread (src/gui.py).  The scanned paths are numbered 1..N in  *)
(* scan order.  A thread's record holds its fields (image_paths, mode,     *)
(* running), the position of run() (state, i) and what it has done so far: *)
(* the percentages sent through progress, the outcomes sent through        *)
(* result_ready, the path lists chain.invoke was called with, whether each *)
(* finished call raised, whether the chain was built, whether              *)
(* error_occurred was sent, and what had happened when stop() was first    *)
(* called.                                                                 *)
(***************************************************************************)
NoStop == [called |-> FALSE, started |-> 0, emitted |-> 0, inflight |-> FALSE]

NoThread ==
    [id |-> 0, state |-> "none", image_paths |-> <<>>, mode |-> "combined",
     running |-> TRUE, i |-> 0, progress |-> <<>>, emitted |-> <<>>,
     invoked |-> <<>>, raised |-> <<>>, chain |-> FALSE, error |-> FALSE,
     stopped |-> NoStop]

\* ConversionThread.__init__, followed by QThread.start().
ConversionThread(id, image_paths, mode) ==
    [NoThread EXCEPT !.id = id, !.state = "started",
                     !.image_paths = image_paths, !.mode = mode]

\* QThread.isRunning(): from start() until run() has returned.
isRunning(th) == th.state \notin {"none", "finished"}

\* Units whose start lies behind the thread: in separate mode the check of
\* the flag at the top of the loop body, in combined mode the call itself.
UnitsStarted(th) == Len(th.invoked) + (IF th.state = "unit" THEN 1 ELSE 0)

\* ConversionThread.stop().
stop(th) ==
    [th EXCEPT !.running = FALSE,
               !.stopped = IF @.called THEN @
                           ELSE [called |-> TRUE,
                                 started |-> UnitsStarted(th),
                                 emitted |-> Len(th.emitted),
                                 inflight |-> th.state = "invoke"]]

\* A unit that is one path whatever the mode.
UnitPathsOneByOne(mode, image_paths, i) == <<image_paths[i + 1]>>

\* What chain.invoke is called with for the unit at loop index i.
UnitPaths(mode, image_paths, i) ==
    IF mode = "combined" THEN image_paths ELSE <<image_paths[i + 1]>>

\* A percentage that counts the unit as done and is not scaled to the 50
\* points left for the units.
UnitProgressUnscaled(i, n) == 40 + (((i + 1) * 100) \div n)

\* The percentage sent before the unit at loop index i of n: 40 + int(i * 50 / n).
UnitProgress(i, n) == 40 + ((i * 50) \div n)

\* A loop that never looks at the flag.
CancelledNever(th) == FALSE

\* The test at the top of the loop body: if not self.running: return.
Cancelled(th) == ~th.running

\* The outcome sent through result_ready for the unit just invoked: the
\* error text when the call raised, the artifact otherwise.
Outcome(th, raised) ==
    [thread |-> th.id,
     image_path |-> UnitPaths(th.mode, th.image_paths, th.i),
     image_name |-> IF th.mode = "combined" THEN 0 ELSE th.image_paths[th.i + 1],
     is_error |-> raised]

ResultReady(th, raised) == [sig |-> "result_ready", thread |-> th.id, outcome |-> Outcome(th, raised)]

\* QThread's finished signal, sent when run() returns; it carries no outcome.
NoOutcome == [thread |-> 0, image_path |-> <<>>, image_name |-> 0, is_error |-> FALSE]

Finished(th) == [sig |-> "finished", thread |-> th.id, outcome |-> NoOutcome]

\* run() up to the first unit: progress 10, the chain is built, progress 30
\* and, in combined mode, progress 40 and the call of chain.invoke.  A chain
\* that cannot be built ends run() in the outer handler with error_occurred.
RunBegin(t) ==
    LET th == threads[t] IN
    /\ th.state = "started"
    /\ \E built \in BOOLEAN :
        \/ /\ ~built
           /\ threads' = [threads EXCEPT ![t] =
                  [th EXCEPT !.progress = <<10>>, !.error = TRUE, !.state = "finished"]]
           /\ queue' = Append(queue, Finished(th))
        \/ /\ built
           /\ th.mode = "combined"
           /\ threads' = [threads EXCEPT ![t] =
                  [th EXCEPT !.progress = <<10, 30, 40>>, !.chain = TRUE,
                             !.invoked = <<UnitPaths(th.mode, th.image_paths, 0)>>,
                             !.state = "invoke"]]
           /\ UNCHANGED queue
        \/ /\ built
           /\ th.mode = "separate"
           /\ threads' = [threads EXCEPT ![t] =
                  [th EXCEPT !.progress = <<10, 30>>, !.chain = TRUE, !.state = "loop"]]
           /\ UNCHANGED queue
    /\ UNCHANGED <<conversion_thread, results, current_result_index,
                   start_btn, stop_btn, llm, guiPc, histVars, pureVars>>

\* The top of the separate loop: the loop ends with progress 100, or the
\* flag is tested and run() returns, or the unit starts.
RunLoop(t) ==
    LET th == threads[t] IN
    /\ th.state = "loop"
    /\ \/ /\ th.i >= Len(th.image_paths)
          /\ threads' = [threads EXCEPT ![t] =
                 [th EXCEPT !.progress = Append(@, 100), !.state = "finished"]]
          /\ queue' = Append(queue, Finished(th))
       \/ /\ th.i < Len(th.image_paths)
          /\ Cancelled(th)
          /\ threads' = [threads EXCEPT ![t] = [th EXCEPT !.state = "finished"]]
          /\ queue' = Append(queue, Finished(th))
       \/ /\ th.i < Len(th.image_paths)
          /\ ~Cancelled(th)
          /\ threads' = [threads EXCEPT ![t] = [th EXCEPT !.state = "unit"]]
          /\ UNCHANGED queue
    /\ UNCHANGED <<conversion_thread, results, current_result_index,
                   start_btn, stop_btn, llm, guiPc, histVars, pureVars>>

\* The unit's progress is sent and chain.invoke([img_path]) is called.
RunUnit(t) ==
    LET th == threads[t] IN
    /\ th.state = "unit"
    /\ threads' = [threads EXCEPT ![t] =
           [th EXCEPT !.progress = Append(@, UnitProgress(th.i, Len(th.image_paths))),
                      !.invoked = Append(@, UnitPaths(th.mode, th.image_paths, th.i)),
                      !.state = "invoke"]]
    /\ UNCHANGED <<conversion_thread, results, current_result_index,
                   start_btn, stop_btn, llm, guiPc, queue, histVars, pureVars>>

\* A run() without the handler around the call: an exception of chain.invoke
\* ends run() in the outer handler, with error_occurred and no outcome.
InvokeDoneEscapes(th, raised) ==
    IF raised
    THEN [th |-> [th EXCEPT !.raised = Append(@, raised),
                            !.error = TRUE,
                            !.state = "finished"],
          signals |-> <<Finished(th)>>]
    ELSE IF th.mode = "combined"
    THEN [th |-> [th EXCEPT !.emitted = Append(@, Outcome(th, raised)),
                            !.raised = Append(@, raised),
                            !.progress = Append(@, 100),
                            !.state = "finished"],
          signals |-> <<ResultReady(th, raised), Finished(th)>>]
    ELSE [th |-> [th EXCEPT !.emitted = Append(@, Outcome(th, raised)),
                            !.raised = Append(@, raised),
                            !.i = @ + 1,
                            !.state = "loop"],
          signals |-> <<ResultReady(th, raised)>>]

\* chain.invoke returned or raised: the thread after it, and the signals it
\* sends.  Both ways the outcome goes through result_ready; combined mode
\* then sends progress 100 and run() returns, separate mode goes on to the
\* next path.
InvokeDone(th, raised) ==
    IF th.mode = "combined"
    THEN [th |-> [th EXCEPT !.emitted = Append(@, Outcome(th, raised)),
                            !.raised = Append(@, raised),
                            !.progress = Append(@, 100),
                            !.state = "finished"],
          signals |-> <<ResultReady(th, raised), Finished(th)>>]
    ELSE [th |-> [th EXCEPT !.emitted = Append(@, Outcome(th, raised)),
                            !.raised = Append(@, raised),
                            !.i = @ + 1,
                            !.state = "loop"],
          signals |-> <<ResultReady(th, raised)>>]

RunInvokeDone(t) ==
    /\ threads[t].state = "invoke"
    /\ \E raised \in BOOLEAN :
        /\ threads' = [threads EXCEPT ![t] = InvokeDone(threads[t], raised).th]
        /\ queue' = queue \o InvokeDone(threads[t], raised).signals
    /\ UNCHANGED <<conversion_thread, results, current_result_index,
                   start_btn, stop_btn, llm, guiPc, histVars, pureVars>>

(***************************************************************************)
(* MainWindow (src/gui.py): the handlers that start and stop a conversion  *)
(* and receive the worker's signals.  A handler that reaches wait(2000)    *)
(* blocks the GUI thread: the workers go on, no queued signal is           *)
(* delivered, and the handler resumes when the thread has finished or the  *)
(* 2000 ms have passed with the thread still inside chain.invoke.          *)
(***************************************************************************)
\* What start_conversion finds: no folder chosen, process_folder raising, or
\* the list of at most maxN image paths it returns.
ScanOutcomes(maxN) ==
    {[kind |-> "nofolder", n |-> 0], [kind |-> "notdir", n |-> 0]}
        \cup {[kind |-> "listed", n |-> k] : k \in 0..maxN}

ImagePaths(n) == [k \in 1..n |-> k]

\* The ids, among ids, no thread was created with yet.
FreeIds(ids) == {t \in ids : threads[t].state = "none"}

\* wait(2000) returns: the thread finished, or the time ran out during a call.
WaitReturns(th) == th.state = "finished" \/ th.state = "invoke"

\* conversion_finished().
conversion_finished ==
    /\ start_btn' = TRUE
    /\ stop_btn' = FALSE
    /\ current_result_index' =
           IF results # <<>> /\ current_result_index < 0 THEN 0 ELSE current_result_index

StartRestKeepsEmptyScan(ids, ths, llmOk, scan, mode) ==
    /\ guiPc' = "idle"
    /\ UNCHANGED <<histVars, pureVars>>
    /\ \/ /\ ~llm /\ ~llmOk
          /\ threads' = ths
          /\ UNCHANGED <<llm, conversion_thread, results, current_result_index,
                         start_btn, stop_btn, queue>>
       \/ /\ llm \/ llmOk
          /\ scan.kind # "listed"
          /\ llm' = TRUE
          /\ threads' = ths
          /\ UNCHANGED <<conversion_thread, results, current_result_index,
                         start_btn, stop_btn, queue>>
       \/ /\ llm \/ llmOk
          /\ scan.kind = "listed"
          /\ FreeIds(ids) # {}
          /\ LET t == CHOOSE x \in FreeIds(ids) : \A y \in FreeIds(ids) : x <= y IN
             /\ llm' = TRUE
             /\ results' = <<>>
             /\ current_result_index' = -1
             /\ start_btn' = FALSE
             /\ stop_btn' = TRUE
             /\ conversion_thread' = t
             /\ threads' = [ths EXCEPT ![t] = ConversionThread(t, ImagePaths(scan.n), mode)]
          /\ UNCHANGED queue

\* start_conversion() after the previous thread was dealt with: the client
\* is created if there is none, the folder is scanned, the results are
\* reset and a new thread is created and started.
StartRest(ids, ths, llmOk, scan, mode) ==
    /\ guiPc' = "idle"
    /\ UNCHANGED <<histVars, pureVars>>
    /\ \/ /\ ~llm /\ ~llmOk
          /\ threads' = ths
          /\ UNCHANGED <<llm, conversion_thread, results, current_result_index,
                         start_btn, stop_btn, queue>>
       \/ /\ llm \/ llmOk
          /\ scan.kind # "listed" \/ scan.n = 0
          /\ llm' = TRUE
          /\ threads' = ths
          /\ UNCHANGED <<conversion_thread, results, current_result_index,
                         start_btn, stop_btn, queue>>
       \/ /\ llm \/ llmOk
          /\ scan.kind = "listed" /\ scan.n > 0
          /\ FreeIds(ids) # {}
          /\ LET t == CHOOSE x \in FreeIds(ids) : \A y \in FreeIds(ids) : x <= y IN
             /\ llm' = TRUE
             /\ results' = <<>>
             /\ current_result_index' = -1
             /\ start_btn' = FALSE
             /\ stop_btn' = TRUE
             /\ conversion_thread' = t
             /\ threads' = [ths EXCEPT ![t] = ConversionThread(t, ImagePaths(scan.n), mode)]
          /\ UNCHANGED queue

\* select_folder(): the dialog is cancelled or process_folder raises and
\* nothing changes, or the start button is enabled exactly when the folder
\* holds an image.
SelectFolder(scans) ==
    /\ guiPc = "idle"
    /\ \E scan \in scans :
           start_btn' = IF scan.kind = "listed" THEN scan.n > 0 ELSE start_btn
    /\ UNCHANGED <<threads, conversion_thread, results, current_result_index,
                   stop_btn, llm, guiPc, queue, histVars, pureVars>>

\* start_conversion() when no previous thread is running.
StartConversion(ids, scans) ==
    /\ guiPc = "idle" /\ start_btn
    /\ ~(conversion_thread # 0 /\ isRunning(threads[conversion_thread]))
    /\ \E llmOk \in (IF llm THEN {TRUE} ELSE BOOLEAN), scan \in scans, mode \in Modes :
           StartRest(ids, threads, llmOk, scan, mode)

\* start_conversion() when the previous thread is running: stop(), wait(2000).
StartConversionStops ==
    /\ guiPc = "idle" /\ start_btn
    /\ conversion_thread # 0 /\ isRunning(threads[conversion_thread])
    /\ threads' = [threads EXCEPT ![conversion_thread] = stop(@)]
    /\ guiPc' = "start_wait"
    /\ UNCHANGED <<conversion_thread, results, current_result_index,
                   start_btn, stop_btn, llm, queue, histVars, pureVars>>

\* start_conversion() after its wait(2000) returned.
StartConversionResumes(ids, scans) ==
    /\ guiPc = "start_wait"
    /\ WaitReturns(threads[conversion_thread])
    /\ \E llmOk \in (IF llm THEN {TRUE} ELSE BOOLEAN), scan \in scans, mode \in Modes :
           StartRest(ids, threads, llmOk, scan, mode)

\* stop_conversion(): stop(), then conversion_finished() at once when the
\* thread is not running, else wait(2000).
StopConversion ==
    /\ guiPc = "idle" /\ stop_btn
    /\ conversion_thread # 0
    /\ threads' = [threads EXCEPT ![conversion_thread] = stop(@)]
    /\ \/ /\ ~isRunning(threads[conversion_thread])
          /\ conversion_finished
          /\ UNCHANGED guiPc
       \/ /\ isRunning(threads[conversion_thread])
          /\ guiPc' = "stop_wait"
          /\ UNCHANGED <<current_result_index, start_btn, stop_btn>>
    /\ UNCHANGED <<conversion_thread, results, llm, queue, histVars, pureVars>>

\* stop_conversion() after its wait(2000) returned: conversion_finished().
StopConversionResumes ==
    /\ guiPc = "stop_wait"
    /\ WaitReturns(threads[conversion_thread])
    /\ guiPc' = "idle"
    /\ conversion_finished
    /\ UNCHANGED <<threads, conversion_thread, results, llm, queue, histVars, pureVars>>

\* handle_result(): the outcome is wrapped in a ProcessingResult and
\* appended; the first result is displayed.
handle_result(outcome) ==
    /\ results' = Append(results, outcome)
    /\ current_result_index' = IF Len(results) = 0 THEN 0 ELSE current_result_index
    /\ UNCHANGED <<start_btn, stop_btn>>

\* The GUI thread's event loop delivers the oldest queued signal.
Deliver ==
    /\ guiPc = "idle"
    /\ queue # <<>>
    /\ queue' = Tail(queue)
    /\ \/ /\ Head(queue).sig = "result_ready"
          /\ handle_result(Head(queue).outcome)
       \/ /\ Head(queue).sig = "finished"
          /\ conversion_finished
          /\ UNCHANGED results
    /\ UNCHANGED <<threads, conversion_thread, llm, guiPc, histVars, pureVars>>

ConvInit ==
    /\ threads = [t \in ThreadIds |-> NoThread]
    /\ conversion_thread = 0
    /\ results = <<>>
    /\ current_result_index = -1
    /\ start_btn = TRUE
    /\ stop_btn = FALSE
    /\ llm = FALSE
    /\ guiPc = "idle"
    /\ queue = <<>>

\* A session in which threads are created with the ids in ids only and a
\* scan of the folder gives one of scans.
ConvNext(ids, scans) ==
    \/ \E t \in ThreadIds : RunBegin(t)
    \/ \E t \in ThreadIds : RunLoop(t)
    \/ \E t \in ThreadIds : RunUnit(t)
    \/ \E t \in ThreadIds : RunInvokeDone(t)
    \/ SelectFolder(scans)
    \/ StartConversion(ids, scans)
    \/ StartConversionStops
    \/ StartConversionResumes(ids, scans)
    \/ StopConversion
    \/ StopConversionResumes
    \/ Deliver

(***************************************************************************)
(* process_folder (src/core.py).  A file name is the sequence of its       *)
(* characters, so that the extension is computed and not assumed.          *)
(***************************************************************************)
MaxEntries == 3

SampleNames ==
    { <<"a", ".", "p", "n", "g">>,
      <<"b", ".", "t", "x", "t">>,
      <<"c", ".", "J", "P", "G">>,
      <<"d", ".", "j", "p", "e", "g">>,
      <<"e", ".", "B", "m", "p">>,
      <<".", "p", "n", "g">>,
      <<"f", ".", "t", ".", "p", "n", "g">>,
      <<"g", ".", "p", "n", "g", ".", "t">>,
      <<"h">>,
      <<"p", "n", "g">>,
      <<"i", ".", "j", "p", "g", ".">> }

FolderPath == <<"u", "m", "l">>

\* str.lower() on one character.
lowerChar(c) ==
    CASE c = "J" -> "j" [] c = "P" -> "p" [] c = "G" -> "g" [] c = "B" -> "b"
      [] c = "E" -> "e" [] c = "N" -> "n" [] c = "M" -> "m" [] OTHER -> c

lower(s) == [k \in 1..Len(s) |-> lowerChar(s[k])]

\* str.rfind: the last position of c in p, 0 when there is none.
rfind(p, c) ==
    LET at == {k \in 1..Len(p) : p[k] = c}
    IN  IF at = {} THEN 0 ELSE CHOOSE k \in at : \A j \in at : j <= k

\* os.path.splitext on a name without separators: split at the last dot,
\* unless only dots come before it.
splitext(p) ==
    LET dot == rfind(p, ".")
    IN  IF dot > 0 /\ \E k \in 1..(dot - 1) : p[k] # "."
        THEN <<SubSeq(p, 1, dot - 1), SubSeq(p, dot, Len(p))>>
        ELSE <<p, <<>>>>

SupportedExtensions ==
    { <<".", "j", "p", "g">>, <<".", "j", "p", "e", "g">>,
      <<".", "p", "n", "g">>, <<".", "b", "m", "p">> }

\* os.path.join of a folder path that does not end with a separator and an
\* entry name.
join(folder_path, f) == folder_path \o <<"/">> \o f

NotScanned == [called |-> FALSE, raised |-> FALSE, image_paths |-> <<>>]

process_folderCaseSensitive(folder_path, isdir, entries) ==
    IF ~isdir
    THEN [called |-> TRUE, raised |-> TRUE, image_paths |-> <<>>]
    ELSE LET supported(f) == splitext(f)[2] \in SupportedExtensions
             kept == SelectSeq(entries, supported)
         IN  [called |-> TRUE, raised |-> FALSE,
              image_paths |-> [k \in 1..Len(kept) |-> join(folder_path, kept[k])]]

process_folder(folder_path, isdir, entries) ==
    IF ~isdir
    THEN [called |-> TRUE, raised |-> TRUE, image_paths |-> <<>>]
    ELSE LET supported(f) == lower(splitext(f)[2]) \in SupportedExtensions
             kept == SelectSeq(entries, supported)
         IN  [called |-> TRUE, raised |-> FALSE,
              image_paths |-> [k \in 1..Len(kept) |-> join(folder_path, kept[k])]]

\* Every listing of up to n distinct sample names.
Listings(n) ==
    UNION { { l \in [1..k -> SampleNames] : \A i, j \in 1..k : i # j => l[i] # l[j] }
            : k \in 0..n }

FolderIdle ==
    /\ is_dir = TRUE
    /\ listing = <<>>
    /\ scanned = NotScanned

FolderInit ==
    /\ is_dir \in BOOLEAN
    /\ listing \in Listings(MaxEntries)
    /\ scanned = NotScanned

ProcessFolder ==
    /\ ~scanned.called
    /\ scanned' = process_folder(FolderPath, is_dir, listing)
    /\ UNCHANGED <<is_dir, listing, histVars, convVars, chainVars, settingsVars, promptVars, editVars>>

(***************************************************************************)
(* The processing chain (src/core.py) and what the two front ends make of  *)
(* one call of it.  A text is a sequence of lines, a line a sequence of    *)
(* words; a string that is not split further is a sequence of its parts.   *)
(***************************************************************************)
MaxUnitImages == 2

UnitNames ==
    { <<"a", ".", "p", "n", "g">>,
      <<"a", ".", "j", "p", "g">>,
      <<"f", ".", "t", ".", "p", "n", "g">> }

\* One line of code or of a summary, as the service writes it.
Line(words) == [comment |-> FALSE, words |-> words, names |-> <<>>]

ServiceCodes ==
    { << Line(<<"Base", "=", "declarative_base", "(", ")">>) >>,
      << Line(<<"import", "declarative_base">>), Line(<<"class", "User", "(", "Base", ")">>) >>,
      << Line(<<"class", "User">>) >>,
      << >> }

Summary == << Line(<<"one", "model">>) >>

\* What the service does with one request: the call raises, the answer is
\* not the JSON of a SQLAlchemyModels, or it is one with this code.
\* The field token_usage of the answer is 0 when the service leaves it out.
Responses ==
    {[kind |-> "raises", code |-> <<>>, token_usage |-> 0],
     [kind |-> "unparsable", code |-> <<>>, token_usage |-> 0]}
        \cup {[kind |-> "json", code |-> c, token_usage |-> 0] : c \in ServiceCodes}
        \cup {[kind |-> "json", token_usage |-> 120,
                code |-> << Line(<<"Base", "=", "declarative_base", "(", ")">>) >>]}

\* uploaded_file.id_ of the file uploaded from path.
FileId(path) == <<"id">> \o path

RECURSIVE upload_filesGivesUp(_, _)
upload_filesGivesUp(file_paths, uploadable) ==
    IF file_paths = <<>> THEN <<>>
    ELSE IF Head(file_paths) \in uploadable
         THEN <<FileId(Head(file_paths))>> \o upload_filesGivesUp(Tail(file_paths), uploadable)
         ELSE <<>>

\* upload_files: the ids of the paths whose open and upload succeed, in the
\* order of the loop; a failure is printed and the loop goes on.
RECURSIVE upload_files(_, _)
upload_files(file_paths, uploadable) ==
    IF file_paths = <<>> THEN <<>>
    ELSE IF Head(file_paths) \in uploadable
         THEN <<FileId(Head(file_paths))>> \o upload_files(Tail(file_paths), uploadable)
         ELSE upload_files(Tail(file_paths), uploadable)

\* 'declarative_base' in v.
code_must_contain_models(v) ==
    \E l \in 1..Len(v) : \E w \in 1..Len(v[l].words) : v[l].words[w] = "declarative_base"

invokeUnvalidated(file_paths, uploadable, response) ==
    LET file_ids == upload_files(file_paths, uploadable)
        failed(e) == [raised |-> TRUE, error |-> e, attachments |-> file_ids,
                      code |-> <<>>, summary |-> <<>>, token_usage |-> 0]
    IN  IF response.kind = "raises" THEN failed("service")
        ELSE IF response.kind = "unparsable" THEN failed("parse")
        ELSE [raised |-> FALSE, error |-> "", attachments |-> file_ids,
              code |-> response.code, summary |-> Summary,
              token_usage |-> response.token_usage]

\* chain.invoke(file_paths): upload, one request with the ids attached, the
\* answer parsed into a SQLAlchemyModels, whose validator raises when the
\* code lacks the marker.
invoke(file_paths, uploadable, response) ==
    LET file_ids == upload_files(file_paths, uploadable)
        failed(e) == [raised |-> TRUE, error |-> e, attachments |-> file_ids,
                      code |-> <<>>, summary |-> <<>>, token_usage |-> 0]
    IN  IF response.kind = "raises" THEN failed("service")
        ELSE IF response.kind = "unparsable" THEN failed("parse")
        ELSE IF ~code_must_contain_models(response.code) THEN failed("validation")
        ELSE [raised |-> FALSE, error |-> "", attachments |-> file_ids,
              code |-> response.code, summary |-> Summary,
              token_usage |-> response.token_usage]

\* os.path.basename.
basename(path) == SubSeq(path, rfind(path, "/") + 1, Len(path))

\* The comment line put before the code: "# ", the label and the names, joined.
CommentLine(label, names) == [comment |-> TRUE, words |-> <<label>>, names |-> names]

ThreadLabel(mode) == IF mode = "combined" THEN "images:" ELSE "image:"

\* The text of an error message that quotes the exception e and the names.
ErrorMessage(e, names) == << [comment |-> FALSE, words |-> <<"error:", e>>, names |-> names] >>

Combined == <<"combined">>

unitOutcomeBare(mode, paths, i, uploadable, response) ==
    LET unit == UnitPaths(mode, paths, i)
        call == invoke(unit, uploadable, response)
        names == [k \in 1..Len(unit) |-> basename(unit[k])]
        image_name == IF mode = "combined" THEN Combined ELSE basename(paths[i + 1])
        image_path == IF mode = "combined" THEN paths ELSE paths[i + 1]
    IN  [data |-> IF call.raised
                  THEN [is_str |-> TRUE, text |-> ErrorMessage(call.error, names)]
                  ELSE [is_str |-> FALSE, text |-> call.code],
         image_name |-> image_name, token_usage |-> 0, image_path |-> image_path,
         attachments |-> call.attachments]    \* not emitted: what the call sent

\* What ConversionThread.run() emits with result_ready for unit i of a run
\* over paths: the SQLAlchemyModels with the comment line put before its
\* code, or the error message.
unitOutcome(mode, paths, i, uploadable, response) ==
    LET unit == UnitPaths(mode, paths, i)
        call == invoke(unit, uploadable, response)
        names == [k \in 1..Len(unit) |-> basename(unit[k])]
        image_name == IF mode = "combined" THEN Combined ELSE basename(paths[i + 1])
        image_path == IF mode = "combined" THEN paths ELSE paths[i + 1]
    IN  [data |-> IF call.raised
                  THEN [is_str |-> TRUE, text |-> ErrorMessage(call.error, names)]
                  ELSE [is_str |-> FALSE, text |-> <<CommentLine(ThreadLabel(mode), names)>> \o call.code],
         image_name |-> image_name, token_usage |-> 0, image_path |-> image_path,
         attachments |-> call.attachments]    \* not emitted: what the call sent

\* ModelConfig(): the defaults.  The temperature is counted in tenths; an
\* optional integer is <<>> for None and <<n>> for n.
ModelConfig ==
    [name |-> <<"GigaChat", "-", "2", "-", "Pro">>, temperature |-> 1,
     max_tokens |-> <<>>, verify_ssl |-> FALSE, timeout |-> 600]

\* str.replace(old, new) for an old that is one part of the string.
replace(s, old, new) == [k \in 1..Len(s) |-> IF s[k] = old THEN new ELSE s[k]]

\* save_results: the file written, with the summary as comment lines and
\* an empty line before the code.  output_filename is <<>> when not given.
save_results(models, model_config, output_filename) ==
    [name |-> IF output_filename = <<>>
              THEN <<"models_">> \o replace(model_config.name, "-", "_") \o <<".py">>
              ELSE output_filename,
     content |-> [k \in 1..Len(models.summary) |-> [models.summary[k] EXCEPT !.comment = TRUE]]
                     \o <<Line(<<>>)>> \o models.code]

NotRun == [ran |-> FALSE, invoked |-> <<>>, saved |-> <<>>, escaped |-> FALSE]

\* The separate loop of run_console_app from path k on, con being what was
\* done so far: an exception of chain.invoke leaves the loop for the handler
\* around the whole function.
RECURSIVE console_separate(_, _, _, _, _)
console_separate(paths, uploadable, responses, k, con) ==
    IF k > Len(paths) THEN con
    ELSE LET stem == splitext(basename(paths[k]))[1]
             call == invoke(<<paths[k]>>, uploadable, responses[k])
             called == [con EXCEPT !.invoked = Append(@, <<paths[k]>>)]
             models == [code |-> <<CommentLine("image:", <<stem>>)>> \o call.code,
                        summary |-> call.summary]
         IN  IF call.raised
             THEN [called EXCEPT !.escaped = TRUE]
             ELSE console_separate(paths, uploadable, responses, k + 1,
                      [called EXCEPT !.saved =
                          Append(@, save_results(models, ModelConfig, stem \o <<"_orm.py">>))])

\* run_console_app from the scan on, with the default configuration.
run_console_app(mode, paths, uploadable, responses) ==
    LET started == [NotRun EXCEPT !.ran = TRUE] IN
    IF mode = "combined"
    THEN LET call == invoke(paths, uploadable, responses[1])
             names == [k \in 1..Len(paths) |-> basename(paths[k])]
             models == [code |-> <<CommentLine("images:", names)>> \o call.code,
                        summary |-> call.summary]
         IN  [started EXCEPT !.invoked = <<paths>>,
                             !.escaped = call.raised,
                             !.saved = IF call.raised THEN <<>>
                                       ELSE <<save_results(models, ModelConfig, <<>>)>>]
    ELSE console_separate(paths, uploadable, responses, 1, started)

\* The number of calls of chain.invoke a run over n paths makes at most.
NCalls(mode, n) == IF mode = "combined" THEN 1 ELSE n

\* A run: the mode, the paths in the order of the scan, the paths whose
\* upload succeeds, and what the service does at each call.
Job(mode, names, uploaded, responses) ==
    [mode |-> mode, image_paths |-> [i \in 1..Len(names) |-> join(FolderPath, names[i])],
     uploadable |-> {join(FolderPath, f) : f \in uploaded}, responses |-> responses]

NoFiles == [save_code |-> <<>>, save_all_results |-> <<>>]

ChainIdle ==
    /\ job = [mode |-> "combined", image_paths |-> <<>>, uploadable |-> {}, responses |-> <<>>]
    /\ emitted = <<>>
    /\ console = NotRun
    /\ files = NoFiles

\* Every run over up to MaxUnitImages of the images.
ChainInit ==
    /\ \E mode \in Modes, k \in 1..MaxUnitImages :
          \E names \in [1..k -> UnitNames] :
              /\ \A i, j \in 1..k : i # j => names[i] # names[j]
              /\ \E uploaded \in SUBSET {names[i] : i \in 1..k},
                     responses \in [1..NCalls(mode, k) -> Responses] :
                     job = Job(mode, names, uploaded, responses)
    /\ emitted = <<>>
    /\ console = NotRun
    /\ files = NoFiles

\* ConversionThread.run() to its end, with no stop: what it emits with
\* result_ready, unit by unit.
ThreadUnits ==
    /\ emitted = <<>>
    /\ emitted' = [k \in 1..NCalls(job.mode, Len(job.image_paths)) |->
                      unitOutcome(job.mode, job.image_paths, k - 1, job.uploadable,
                                  job.responses[k])]
    /\ UNCHANGED <<job, console, files, histVars, convVars, folderVars, settingsVars, promptVars, editVars>>

\* run_console_app() on the same job.
ConsoleRun ==
    /\ ~console.ran
    /\ console' = run_console_app(job.mode, job.image_paths, job.uploadable, job.responses)
    /\ UNCHANGED <<job, emitted, files, histVars, convVars, folderVars, settingsVars, promptVars, editVars>>

\* What is written for a result: the error text, or the summary as comment
\* lines, an empty line and the code.
FileText(out) ==
    IF out.data.is_str THEN out.data.text
    ELSE [k \in 1..Len(Summary) |-> [Summary[k] EXCEPT !.comment = TRUE]]
             \o <<Line(<<>>)>> \o out.data.text

\* save_code(): the name proposed in the dialog for the result out.
default_name(out, model_config) ==
    IF out.image_name # Combined
    THEN splitext(out.image_name)[1] \o <<"_orm.py">>
    ELSE <<"models_">> \o replace(model_config.name, "-", "_") \o <<".py">>

\* save_all_results(): the name of the file of the result out.
filename(out) ==
    IF out.image_name = Combined
    THEN <<"combined_models.py">>
    ELSE splitext(out.image_name)[1] \o <<"_orm.py">>

\* save_code() for the result shown, the operator accepting the name the
\* dialog proposes; a cancelled dialog writes nothing.
SaveCode ==
    /\ files.save_code = <<>>
    /\ \E k \in DOMAIN emitted, accepted \in BOOLEAN :
          files' = [files EXCEPT !.save_code =
                       IF accepted
                       THEN <<[of |-> k, dir |-> "output_dir",
                               name |-> default_name(emitted[k], config),
                               content |-> FileText(emitted[k])]>>
                       ELSE <<>>]
    /\ UNCHANGED <<job, emitted, console, histVars, convVars, folderVars, settingsVars, promptVars, editVars>>

\* save_all_results(): one file per result in the folder sqlalchemy_models.
SaveAllResults ==
    /\ emitted # <<>>
    /\ files.save_all_results = <<>>
    /\ files' = [files EXCEPT !.save_all_results =
                    [k \in 1..Len(emitted) |->
                        [of |-> k, dir |-> "sqlalchemy_models",
                         name |-> filename(emitted[k]),
                         content |-> FileText(emitted[k])]]]
    /\ UNCHANGED <<job, emitted, console, histVars, convVars, folderVars, settingsVars, promptVars, editVars>>

ChainNext == ThreadUnits \/ ConsoleRun \/ SaveCode \/ SaveAllResults

(***************************************************************************)
(* The settings of the MainWindow (src/gui.py): the one ModelConfig object *)
(* made in __init__, which save_settings assigns to field by field and     *)
(* which every ConversionThread and ProcessingResult is given a reference  *)
(* to.                                                                     *)
(***************************************************************************)
MaxResults == 2
MaxSaves == 2
MaxStarts == 2

ModelNames ==
    { <<"GigaChat", "-", "2">>, <<"GigaChat", "-", "2", "-", "Pro">>,
      <<"GigaChat", "-", "2", "-", "Max">> }

\* What the operator may have typed into the three line edits.
TemperatureTexts == { <<"0", ".", "7">>, <<"a", "b", "c">> }
MaxTokensTexts == { <<>>, <<"1", "0", "0">>, <<"1", ".", "5">> }
TimeoutTexts == { <<"3", "0">>, <<>> }

Forms ==
    [name : ModelNames, temperature : TemperatureTexts,
     max_tokens : MaxTokensTexts, timeout : TimeoutTexts]

Digits == {"0", "1", "2", "3", "4", "5", "6", "7", "8", "9"}

DigitValue(c) ==
    CASE c = "0" -> 0 [] c = "1" -> 1 [] c = "2" -> 2 [] c = "3" -> 3 [] c = "4" -> 4
      [] c = "5" -> 5 [] c = "6" -> 6 [] c = "7" -> 7 [] c = "8" -> 8 [] c = "9" -> 9

RECURSIVE DecimalValue(_)
DecimalValue(text) ==
    IF text = <<>> THEN 0
    ELSE 10 * DecimalValue(SubSeq(text, 1, Len(text) - 1)) + DigitValue(text[Len(text)])

\* int(text) for a text without sign and blanks: ValueError unless it is a
\* non-empty run of digits.
int(text) ==
    IF text # <<>> /\ \A k \in 1..Len(text) : text[k] \in Digits
    THEN [raised |-> FALSE, value |-> DecimalValue(text)]
    ELSE [raised |-> TRUE, value |-> 0]

\* float(text) for a text without sign, blanks and exponent, in tenths:
\* digits, with at most one dot among them and one digit after it.
float(text) ==
    LET dot == rfind(text, ".")
        whole == IF dot = 0 THEN text ELSE SubSeq(text, 1, dot - 1)
        frac == IF dot = 0 THEN <<>> ELSE SubSeq(text, dot + 1, Len(text))
    IN  IF /\ whole \o frac # <<>>
           /\ \A k \in 1..Len(whole) : whole[k] \in Digits
           /\ \A k \in 1..Len(frac) : frac[k] \in Digits
           /\ Len(frac) <= 1
        THEN [raised |-> FALSE,
              value |-> 10 * DecimalValue(whole) + DecimalValue(frac)]
        ELSE [raised |-> TRUE, value |-> 0]

\* save_settings() on the config object c with the form as typed: the
\* fields are assigned one after the other until a conversion raises.
save_settings(c, form) ==
    LET temperature == float(form.temperature)
        max_tokens == IF form.max_tokens # <<>> THEN int(form.max_tokens)
                      ELSE [raised |-> FALSE, value |-> 0]
        timeout == int(form.timeout)
        c1 == [c EXCEPT !.name = form.name]
        c2 == [c1 EXCEPT !.temperature = temperature.value]
        c3 == [c2 EXCEPT !.max_tokens = IF form.max_tokens # <<>>
                                        THEN <<max_tokens.value>> ELSE <<>>]
        c4 == [c3 EXCEPT !.timeout = timeout.value]
    IN  IF temperature.raised THEN [config |-> c1, raised |-> TRUE]
        ELSE IF max_tokens.raised THEN [config |-> c2, raised |-> TRUE]
        ELSE IF timeout.raised THEN [config |-> c3, raised |-> TRUE]
        ELSE [config |-> c4, raised |-> FALSE]

NotSaved == [calls |-> 0, raised |-> FALSE, before |-> ModelConfig]

NoRun == [started |-> FALSE, runs |-> 0, at_start |-> ModelConfig, results |-> 0]

\* self.llm = None.
NoClient == [made |-> FALSE, with |-> ModelConfig]

\* GigaChat(model=..., temperature=..., max_tokens=..., timeout=...): the
\* client keeps the values it is given.
GigaChat(c) == [made |-> TRUE, with |-> c]

SettingsInit ==
    /\ config = ModelConfig
    /\ saved = NotSaved
    /\ carried = NoRun
    /\ client = NoClient

\* The operator presses the save button of the settings tab.
SaveSettings ==
    /\ saved.calls < MaxSaves
    /\ \E form \in Forms :
          LET done == save_settings(config, form) IN
          /\ config' = done.config
          /\ saved' = [calls |-> saved.calls + 1, raised |-> done.raised, before |-> config]
    /\ UNCHANGED <<carried, client, histVars, convVars, folderVars, chainVars, promptVars, editVars>>

\* start_conversion() makes the client from self.config when there is none
\* yet, resets the results and creates the ConversionThread with the client
\* and self.config: the thread holds the config object, not a copy of it.
StartRun ==
    /\ carried.runs < MaxStarts
    /\ client' = IF ~client.made THEN GigaChat(config) ELSE client
    /\ carried' = [started |-> TRUE, runs |-> carried.runs + 1, at_start |-> config,
                   results |-> 0]
    /\ UNCHANGED <<config, saved, histVars, convVars, folderVars, chainVars, promptVars, editVars>>

\* handle_result() makes a ProcessingResult with the config the thread
\* emitted, the same object again.
HandleResult ==
    /\ carried.started
    /\ carried.results < MaxResults
    /\ carried' = [carried EXCEPT !.results = @ + 1]
    /\ UNCHANGED <<config, saved, client, histVars, convVars, folderVars, chainVars, promptVars, editVars>>

\* self.config of the running ConversionThread and of every ProcessingResult
\* made from what it emitted: the object config is the value of.
CarriedConfig == config

SettingsNext == SaveSettings \/ StartRun \/ HandleResult

(***************************************************************************)
(* The system prompt (src/gui.py apply_prompt, src/core.py                 *)
(* init_application).  A prompt is the sequence of its parts, the          *)
(* placeholder being one part.                                             *)
(***************************************************************************)
Placeholder == "{format_instructions}"

PromptTexts ==
    { <<>>,
      <<"convert the diagrams">>,
      <<"convert the diagrams", Placeholder>>,
      <<Placeholder, "convert the diagrams">>,
      <<"convert the diagrams", "\n\n", Placeholder>>,
      <<"{format_instructions">> }

add_placeholderAlways(text) ==
    [text |-> text \o <<"\n\n", Placeholder>>, warned |-> TRUE]

\* The test for the placeholder: it is added after an empty line, with a
\* warning, to a text that does not hold it.
add_placeholder(text) ==
    IF ~\E k \in 1..Len(text) : text[k] = Placeholder
    THEN [text |-> text \o <<"\n\n", Placeholder>>, warned |-> TRUE]
    ELSE [text |-> text, warned |-> FALSE]

\* QTextEdit.append: the text becomes a new paragraph at the end.
append(edit, text) == IF edit = <<>> THEN text ELSE edit \o <<"\n">> \o text

NotAssembled ==
    [op |-> "none", src |-> <<>>, warned |-> FALSE, before |-> <<>>, again |-> FALSE]

PromptInit ==
    /\ DEFAULT_SYSTEM_PROMPT \in PromptTexts
    /\ system_prompt = DEFAULT_SYSTEM_PROMPT
    /\ prompt_edit = DEFAULT_SYSTEM_PROMPT
    /\ assembled = NotAssembled

PromptIdle ==
    /\ PromptInit
    /\ DEFAULT_SYSTEM_PROMPT = <<"convert the diagrams", Placeholder>>

\* The operator types into the prompt field, or load_prompt_from_file()
\* puts the content of a file there.
SetPromptEdit ==
    /\ \E text \in PromptTexts : prompt_edit' = text
    /\ UNCHANGED <<DEFAULT_SYSTEM_PROMPT, system_prompt, assembled,
                   histVars, convVars, folderVars, chainVars, settingsVars, editVars>>

\* apply_prompt() with one of the three radio buttons checked: the standard
\* prompt, the prompt as it is (file), or the text of the prompt field.
ApplyPrompt ==
    /\ \E radio \in {"std", "file", "custom"} :
          LET src == CASE radio = "std" -> DEFAULT_SYSTEM_PROMPT
                       [] radio = "file" -> system_prompt
                       [] radio = "custom" -> prompt_edit
              shown == IF radio = "std" THEN DEFAULT_SYSTEM_PROMPT ELSE prompt_edit
              done == add_placeholder(src)
          IN  /\ system_prompt' = done.text
              /\ prompt_edit' = IF done.warned
                                THEN append(shown, <<"\n\n", Placeholder>>)
                                ELSE shown
              /\ assembled' = [op |-> "apply_prompt", src |-> src, warned |-> done.warned,
                               before |-> system_prompt, again |-> assembled.op # "none"]
    /\ UNCHANGED <<DEFAULT_SYSTEM_PROMPT, histVars, convVars, folderVars, chainVars,
                   settingsVars, editVars>>

\* init_application() of the console application: the standard prompt, or
\* the text read from a file or typed in.
InitApplication ==
    /\ assembled.op = "none"
    /\ \E src \in {DEFAULT_SYSTEM_PROMPT} \cup PromptTexts :
          LET done == add_placeholder(src) IN
          /\ system_prompt' = done.text
          /\ assembled' = [op |-> "init_application", src |-> src, warned |-> done.warned,
                           before |-> system_prompt, again |-> FALSE]
    /\ UNCHANGED <<DEFAULT_SYSTEM_PROMPT, prompt_edit, histVars, convVars, folderVars,
                   chainVars, settingsVars, editVars>>

PromptNext == SetPromptEdit \/ ApplyPrompt \/ InitApplication

(***************************************************************************)
(* The result views of the MainWindow (src/gui.py): the list of results,   *)
(* the index of the displayed one, the code view (its text and whether it  *)
(* is read-only) and the buttons that act on the displayed result.  A      *)
(* handler bound to a button runs only while the button is enabled.        *)
(***************************************************************************)
NoWindow ==
    [results |-> <<>>, current_result_index |-> -1, text |-> "", readOnly |-> TRUE,
     prev_result_btn |-> FALSE, next_result_btn |-> FALSE,
     edit_btn |-> FALSE, save_edit_btn |-> FALSE, cancel_edit_btn |-> FALSE,
     restore_btn |-> FALSE, undo_btn |-> FALSE, redo_btn |-> FALSE]

\* self.results[self.current_result_index]
current(w) == w.results[w.current_result_index + 1]

\* The window with the displayed result replaced by r.
withCurrent(w, r) == [w EXCEPT !.results[w.current_result_index + 1] = r]

\* A cancel_edits that stores the text of the code view in the result.
cancel_editsCommits(w) ==
    LET w1 == [w EXCEPT !.readOnly = TRUE, !.edit_btn = TRUE, !.save_edit_btn = FALSE,
                        !.cancel_edit_btn = FALSE, !.restore_btn = TRUE]
    IN IF w.current_result_index >= 0 /\ w.results # <<>>
       THEN LET r == setCode(current(w), w.text)
            IN [withCurrent(w1, r) EXCEPT !.text = code(r), !.undo_btn = has_undo(r),
                                          !.redo_btn = has_redo(r)]
       ELSE w1

cancel_edits(w) ==
    LET w1 == [w EXCEPT !.readOnly = TRUE, !.edit_btn = TRUE, !.save_edit_btn = FALSE,
                        !.cancel_edit_btn = FALSE, !.restore_btn = TRUE]
    IN IF w.current_result_index >= 0 /\ w.results # <<>>
       THEN [w1 EXCEPT !.text = code(current(w)), !.undo_btn = has_undo(current(w)),
                       !.redo_btn = has_redo(current(w))]
       ELSE w1

display_current_result(w) ==
    IF w.results = <<>> \/ w.current_result_index < 0
    THEN w
    ELSE cancel_edits([w EXCEPT !.text = code(current(w)), !.edit_btn = TRUE,
                                !.restore_btn = TRUE,
                                !.undo_btn = has_undo(current(w)),
                                !.redo_btn = has_redo(current(w))])

update_navigation_buttons(w) ==
    LET has_results == Len(w.results) > 0
    IN [w EXCEPT !.prev_result_btn = has_results /\ w.current_result_index > 0,
                 !.next_result_btn =
                     has_results /\ w.current_result_index < Len(w.results) - 1]

show_previous_result(w) ==
    IF w.current_result_index > 0
    THEN update_navigation_buttons(display_current_result(
             [w EXCEPT !.current_result_index = w.current_result_index - 1]))
    ELSE w

show_next_result(w) ==
    IF w.current_result_index < Len(w.results) - 1
    THEN update_navigation_buttons(display_current_result(
             [w EXCEPT !.current_result_index = w.current_result_index + 1]))
    ELSE w

toggle_edit_mode(w) ==
    IF w.readOnly
    THEN [w EXCEPT !.readOnly = FALSE, !.edit_btn = FALSE, !.save_edit_btn = TRUE,
                   !.cancel_edit_btn = TRUE, !.restore_btn = FALSE,
                   !.undo_btn = FALSE, !.redo_btn = FALSE]
    ELSE [w EXCEPT !.readOnly = TRUE, !.edit_btn = TRUE, !.save_edit_btn = FALSE,
                   !.cancel_edit_btn = FALSE, !.restore_btn = TRUE,
                   !.undo_btn = has_undo(current(w)),
                   !.redo_btn = has_redo(current(w))]

save_edits(w) ==
    IF w.current_result_index < 0 \/ w.results = <<>>
    THEN w
    ELSE LET r == setCode(current(w), w.text)
         IN [toggle_edit_mode(withCurrent(w, r)) EXCEPT !.undo_btn = has_undo(r),
                                                         !.redo_btn = has_redo(r)]

\* MainWindow.restore_original, the handler of the restore button.
restore_original_clicked(w) ==
    IF w.current_result_index < 0 \/ w.results = <<>>
    THEN w
    ELSE LET r == restore_original(current(w)).pr
         IN [withCurrent(w, r) EXCEPT !.text = code(r), !.undo_btn = FALSE,
                                      !.redo_btn = FALSE]

undo_changes(w) ==
    IF w.current_result_index < 0 \/ w.results = <<>>
    THEN w
    ELSE LET done == undo(current(w))
         IN [withCurrent(w, done.pr) EXCEPT !.text = done.ret,
                                            !.undo_btn = has_undo(done.pr),
                                            !.redo_btn = has_redo(done.pr)]

redo_changes(w) ==
    IF w.current_result_index < 0 \/ w.results = <<>>
    THEN w
    ELSE LET done == redo(current(w))
         IN [withCurrent(w, done.pr) EXCEPT !.text = done.ret,
                                            !.undo_btn = has_undo(done.pr),
                                            !.redo_btn = has_redo(done.pr)]

\* MainWindow.handle_result on the views: the outcome of the worker thread
\* becomes a new ProcessingResult at the end of the list; only the first
\* one is displayed at once.
append_result(w, d) ==
    LET w1 == [w EXCEPT !.results = Append(w.results, ProcessingResult(d))]
    IN update_navigation_buttons(
           IF Len(w1.results) = 1
           THEN display_current_result([w1 EXCEPT !.current_result_index = 0])
           ELSE w1)

\* Most results one session shows, most versions the operator adds to them
\* in all, and the texts the operator types into the code view.
MaxShown == 2
MaxCommits == 2
EditTexts == {"v1", "v2"}

RECURSIVE Versions(_)
\* The number of history entries of a list of results.
Versions(rs) == IF rs = <<>> THEN 0 ELSE Len(Head(rs).history) + Versions(Tail(rs))

EditInit ==
    /\ window = NoWindow
    /\ lastEdit = "init"

Ran(op, w2) ==
    /\ window' = w2
    /\ lastEdit' = op
    /\ UNCHANGED <<histVars, convVars, folderVars, chainVars, settingsVars, promptVars>>

\* result_ready reaches the window.
ResultArrives ==
    \E d \in Datas :
        /\ Len(window.results) < MaxShown
        /\ Ran("handle_result", append_result(window, d))

\* The operator types into the code view while it can be edited.
TypeCode ==
    \E t \in EditTexts :
        /\ ~window.readOnly
        /\ Ran("type", [window EXCEPT !.text = t])

ShowPrevious ==
    /\ window.prev_result_btn
    /\ Ran("show_previous_result", show_previous_result(window))

ShowNext ==
    /\ window.next_result_btn
    /\ Ran("show_next_result", show_next_result(window))

ToggleEdit ==
    /\ window.edit_btn
    /\ Ran("toggle_edit_mode", toggle_edit_mode(window))

SaveEdits ==
    /\ window.save_edit_btn
    /\ Versions(save_edits(window).results) <= Len(window.results) + MaxCommits
    /\ Ran("save_edits", save_edits(window))

CancelEdits ==
    /\ window.cancel_edit_btn
    /\ Ran("cancel_edits", cancel_edits(window))

RestoreOriginalClicked ==
    /\ window.restore_btn
    /\ Ran("restore_original", restore_original_clicked(window))

UndoChanges ==
    /\ window.undo_btn
    /\ Ran("undo_changes", undo_changes(window))

RedoChanges ==
    /\ window.redo_btn
    /\ Ran("redo_changes", redo_changes(window))

EditNext ==
    \/ ResultArrives \/ TypeCode \/ ShowPrevious \/ ShowNext \/ ToggleEdit
    \/ SaveEdits \/ CancelEdits \/ RestoreOriginalClicked \/ UndoChanges \/ RedoChanges

PureIdle == FolderIdle /\ ChainIdle /\ SettingsInit /\ PromptIdle /\ EditInit

Init == HistInit /\ ConvInit /\ PureIdle

\* The same with the single ProcessingResult of SpecHistory left as one artifact.
InitConv == HistInit /\ ~data.is_str /\ ConvInit /\ PureIdle

\* One ProcessingResult, constructed with either kind of data, under every
\* sequence of its operations.
SpecHistory == Init /\ [][HistNext]_vars

\* A session of the MainWindow with up to MaxRuns conversions started.
Spec == InitConv /\ [][ConvNext(ThreadIds, ScanOutcomes(MaxImagesSession))]_vars

\* A session with one conversion started: one ConversionThread from
\* start_conversion to the delivery of its last signal, with the operator
\* free to press stop and start at every moment.
SingleRun == {1}

SpecRun == InitConv /\ [][ConvNext(SingleRun, ScanOutcomes(MaxImages))]_vars

\* One call of process_folder on a folder path that is a directory or not,
\* with any listing of up to MaxEntries entries.
InitFolder ==
    HistInit /\ ~data.is_str /\ ConvInit /\ FolderInit /\ ChainIdle /\ SettingsInit /\ PromptIdle /\ EditInit

SpecFolder == InitFolder /\ [][ProcessFolder]_vars

\* One run of up to MaxUnitImages images through the chain, as the
\* ConversionThread and as the console application carry it out, with any
\* outcome of every upload and of every call of the service.
InitChain ==
    HistInit /\ ~data.is_str /\ ConvInit /\ FolderIdle /\ ChainInit /\ SettingsInit /\ PromptIdle /\ EditInit

SpecChain == InitChain /\ [][ChainNext]_vars

\* The settings tab and one run: save_settings at any moment before,
\* during and after a run that makes up to MaxResults results.
\* The operator at the result views while results arrive: up to MaxShown
\* results, edited, committed, undone, redone, restored and walked through.
SpecEdit == InitConv /\ [][EditNext]_vars

SpecSettings == InitConv /\ [][SettingsNext]_vars

\* The prompt tab and the console's init_application, for any content of
\* the standard prompt's file.
InitPrompt ==
    HistInit /\ ~data.is_str /\ ConvInit /\ FolderIdle /\ ChainIdle /\ SettingsInit /\ PromptInit /\ EditInit

SpecPrompt == InitPrompt /\ [][PromptNext]_vars

(***************************************************************************)
(* Properties of the version history, stated for SpecHistory.             *)
(***************************************************************************)

\* C2 (as stated): in every reachable state, undo() followed immediately by
\* redo() returns from redo() the text that was current before the undo()
\* and leaves the pointer where it was before the undo().
C2_UndoRedoRoundTrip ==
    (prevOp = "undo" /\ lastOp = "redo") =>
        /\ lastRet = code(before2)
        /\ result.current_version = before2.current_version

\* C2 (amended): the round trip holds from every reachable state in which
\* undo() moves the pointer (current_version > 0) or nothing can be redone
\* (current_version is the last index).
C2_UndoRedoRoundTripAmended ==
    (prevOp = "undo" /\ lastOp = "redo"
        /\ (has_undo(before2) \/ ~has_redo(before2))) =>
        /\ lastRet = code(before2)
        /\ result.current_version = before2.current_version

\* An undo() that moved the pointer back, followed by redo().
C2_Witness ==
    /\ prevOp = "undo" /\ lastOp = "redo"
    /\ before2.current_version = 1
    /\ before.current_version = 0
    /\ Len(before2.history) = 3

\* C3: commit(newText) from history h and pointer p gives h[0..p] followed
\* by newText with pointer p+1, the last index; has_redo() is false and a
\* following redo() changes nothing.  The scenario v1, v2, v3, undo, undo,
\* commit v4 ends with history [v1, v4] and pointer 1.
C3_CommitTruncates ==
    /\ lastOp = "commit" =>
          /\ result.history =
                 Append(SubSeq(before.history, 1, before.current_version + 1), lastArg)
          /\ result.current_version = before.current_version + 1
          /\ result.current_version = Len(result.history) - 1
          /\ ~has_redo(result)
          /\ redo(result).pr = result
          /\ redo(result).ret = lastArg
    /\ (prevOp = "commit" /\ lastOp = "redo") =>
          /\ result = before
          /\ lastRet = code(before)
    /\ LET s0 == ProcessingResult([is_str |-> FALSE, text |-> "v1"])
           s3 == setCode(setCode(s0, "v2"), "v3")
           s5 == undo(undo(s3).pr).pr
           s6 == setCode(s5, "v4")
       IN /\ s6.history = <<"v1", "v4">>
          /\ s6.current_version = 1
          /\ ~has_redo(s6)

\* The scenario of C3: v4 committed at pointer 0 of [v1, v2, v3].
C3_Witness ==
    /\ lastOp = "commit" /\ lastArg = "v4" /\ prevOp = "undo"
    /\ before.history = <<"v1", "v2", "v3">>
    /\ before.current_version = 0
    /\ result.history = <<"v1", "v4">>
    /\ result.current_version = 1

\* C4: after any sequence of operations history[0] is the text the result
\* was created with, and restore_original() returns that text and leaves
\* the current text equal to it.
C4_OriginalKept ==
    /\ Len(result.history) >= 1
    /\ result.history[1] = data.text
    /\ lastOp = "restore_original" =>
          /\ lastRet = data.text
          /\ code(result) = data.text

\* restore_original() called with the pointer on a later, committed version.
C4_Witness ==
    /\ lastOp = "restore_original" /\ prevOp = "commit"
    /\ before.current_version = 2
    /\ code(before) # data.text

\* C5: in every reachable state 0 <= current_version < len(history), so the
\* code property never indexes outside the history.
C5_PointerInRange ==
    /\ 0 <= result.current_version
    /\ result.current_version < Len(result.history)
    /\ code(result) # "IndexError"

\* undo() called at pointer 0 of a history of three versions.
C5_Witness ==
    /\ lastOp = "undo" /\ before.current_version = 0
    /\ Len(result.history) = 3
    /\ result.current_version = 0

(***************************************************************************)
(* Properties of a conversion run, stated for SpecRun and Spec.           *)
(***************************************************************************)
Last(seq) == seq[Len(seq)]

\* The outcomes of thread t the GUI thread has wrapped and appended to
\* results, followed by those still queued for it.
Handled(t) ==
    LET Mine(o) == o.thread = t
        Pending(e) == e.sig = "result_ready" /\ e.thread = t
        Queued == SelectSeq(queue, Pending)
    IN SelectSeq(results, Mine) \o [k \in 1..Len(Queued) |-> Queued[k].outcome]

\* C1: in separate mode, with no cancellation requested, a run over N paths
\* calls chain.invoke once per path in scan order whichever calls raise, and
\* sends exactly N outcomes through result_ready in scan order, the k-th
\* for path k and an error text exactly when the k-th call raised; each is
\* handled by handle_result in that order.
C1_SeparateOneOutcomePerPath ==
    \A t \in ThreadIds :
        LET th == threads[t]
            n == Len(th.image_paths)
        IN (th.mode = "separate" /\ th.chain /\ th.running) =>
             /\ \A k \in 1..Len(th.invoked) : th.invoked[k] = <<th.image_paths[k]>>
             /\ \A k \in 1..Len(th.emitted) :
                    /\ th.emitted[k].image_path = <<th.image_paths[k]>>
                    /\ th.emitted[k].is_error = th.raised[k]
             /\ Len(th.raised) = Len(th.emitted)
             /\ th.state = "invoke" => Len(th.invoked) = Len(th.emitted) + 1
             /\ th.state # "invoke" => Len(th.invoked) = Len(th.emitted)
             /\ th.state = "finished" => Len(th.emitted) = n /\ Len(th.invoked) = n
             /\ t = conversion_thread => Handled(t) = th.emitted

\* A finished separate run over three paths whose second call raised and
\* whose other calls did not, all its outcomes delivered.
C1_Witness ==
    \E t \in ThreadIds :
        LET th == threads[t] IN
        /\ th.mode = "separate" /\ th.state = "finished" /\ th.running
        /\ Len(th.image_paths) = 3
        /\ th.raised = <<FALSE, TRUE, FALSE>>
        /\ Len(results) = 3 /\ results = th.emitted
        /\ results[2].is_error /\ ~results[3].is_error

\* C6: in combined mode a run over N >= 1 paths makes exactly one call of
\* chain.invoke, with all N paths, and sends exactly one outcome, an error
\* text exactly when the call raised, which handle_result wraps once; the
\* run then ends with progress 100.
C6_CombinedOneInvocation ==
    \A t \in ThreadIds :
        LET th == threads[t] IN
        (th.mode = "combined" /\ th.chain) =>
            /\ th.invoked = <<th.image_paths>>
            /\ Len(th.emitted) <= 1
            /\ th.state \in {"invoke", "finished"}
            /\ th.state = "finished" =>
                  /\ Len(th.emitted) = 1
                  /\ th.emitted[1].image_path = th.image_paths
                  /\ th.emitted[1].is_error = th.raised[1]
                  /\ Last(th.progress) = 100
            /\ t = conversion_thread => Handled(t) = th.emitted

\* A combined run over three paths whose call raised, its one outcome
\* delivered as the only result.
C6_Witness ==
    \E t \in ThreadIds :
        LET th == threads[t] IN
        /\ th.mode = "combined" /\ th.state = "finished"
        /\ Len(th.image_paths) = 3
        /\ th.raised = <<TRUE>>
        /\ Len(results) = 1 /\ results[1].is_error
        /\ results[1].image_path = <<1, 2, 3>>

\* C7 (as stated): in both modes, once stop() has been called no unit that
\* had not started yet is invoked, and no outcome is sent for it.
C7_NoUnitStartsAfterStop ==
    \A t \in ThreadIds :
        LET th == threads[t] IN
        th.stopped.called =>
            /\ Len(th.invoked) <= th.stopped.started
            /\ Len(th.emitted) <= th.stopped.started

\* C7, separate mode only: what the loop's test of the flag gives.
C7_SeparateNoUnitStartsAfterStop ==
    \A t \in ThreadIds :
        LET th == threads[t] IN
        (th.stopped.called /\ th.mode = "separate") =>
            /\ Len(th.invoked) <= th.stopped.started
            /\ Len(th.emitted) <= th.stopped.started

\* C8: a stop() called while a call of chain.invoke is in flight does not
\* abort it: the call ends, its outcome is sent through result_ready, and
\* no further unit is started; whenever stop() is called, at most one
\* outcome is sent after it.
C8_StopLetsInFlightCallEnd ==
    \A t \in ThreadIds :
        LET th == threads[t] IN
        th.stopped.called =>
            /\ Len(th.emitted) <= th.stopped.emitted + 1
            /\ th.stopped.inflight =>
                  /\ Len(th.invoked) = th.stopped.started
                  /\ th.state \in {"invoke", "loop", "finished"}
                  /\ th.state # "invoke" =>
                        /\ Len(th.emitted) = th.stopped.emitted + 1
                        /\ Len(th.raised) = Len(th.invoked)

\* stop() called during the first call of a separate run over three paths;
\* the run has ended with that one outcome sent and delivered.
C8_Witness ==
    \E t \in ThreadIds :
        LET th == threads[t] IN
        /\ th.mode = "separate" /\ th.state = "finished"
        /\ Len(th.image_paths) = 3
        /\ th.stopped.called /\ th.stopped.inflight
        /\ th.stopped.emitted = 0
        /\ Len(th.emitted) = 1
        /\ results = th.emitted

\* C9 (as stated): at no time are two ConversionThreads running, and two
\* calls of chain.invoke are never in flight at once.
C9_OneRunActive ==
    /\ Cardinality({t \in ThreadIds : isRunning(threads[t])}) <= 1
    /\ Cardinality({t \in ThreadIds : threads[t].state = "invoke"}) <= 1

\* C10: the percentages one run sends through progress never decrease and
\* each lies in 0..100.
C10_ProgressMonotone ==
    \A t \in ThreadIds :
        LET pr == threads[t].progress IN
        \A k \in 1..Len(pr) :
            /\ pr[k] \in 0..100
            /\ k > 1 => pr[k - 1] <= pr[k]

\* A separate run over three paths that sent every percentage up to 100.
C10_Witness ==
    \E t \in ThreadIds :
        /\ threads[t].mode = "separate"
        /\ threads[t].progress = <<10, 30, 40, 56, 73, 100>>

(***************************************************************************)
(* Properties of process_folder, stated for SpecFolder.                    *)
(***************************************************************************)

\* The name ends in one of the four image extensions, in any letter case:
\* its last dot has a character other than a dot before it, and what starts
\* at that dot is .jpg, .jpeg, .png or .bmp once lower-cased.
IsImageName(f) ==
    \E k \in 1..Len(f) :
        /\ f[k] = "."
        /\ \A j \in (k + 1)..Len(f) : f[j] # "."
        /\ \E j \in 1..(k - 1) : f[j] # "."
        /\ \E ext \in SupportedExtensions :
              /\ Len(ext) = Len(f) - k + 1
              /\ \A j \in 1..Len(ext) : lowerChar(f[k + j - 1]) = ext[j]

PathOf(f) == FolderPath \o <<"/">> \o f

\* C11: process_folder on an existing directory returns exactly the entries
\* whose final extension, lower-cased, is .jpg, .jpeg, .png or .bmp, each
\* joined with the folder path and each once, in the order of the listing;
\* a.png, b.txt, c.JPG gives a.png and c.JPG.
C11_FolderScanKeepsImages ==
    (scanned.called /\ is_dir) =>
        /\ ~scanned.raised
        /\ \A k \in 1..Len(listing) :
              Cardinality({j \in DOMAIN scanned.image_paths :
                              scanned.image_paths[j] = PathOf(listing[k])})
                  = IF IsImageName(listing[k]) THEN 1 ELSE 0
        /\ \A j \in DOMAIN scanned.image_paths :
              \E k \in 1..Len(listing) : scanned.image_paths[j] = PathOf(listing[k])
        /\ (listing = << <<"a", ".", "p", "n", "g">>, <<"b", ".", "t", "x", "t">>,
                         <<"c", ".", "J", "P", "G">> >>
               => scanned.image_paths = << PathOf(<<"a", ".", "p", "n", "g">>),
                                           PathOf(<<"c", ".", "J", "P", "G">>) >>)

C11_Witness ==
    /\ scanned.called
    /\ is_dir
    /\ listing = << <<"a", ".", "p", "n", "g">>, <<"b", ".", "t", "x", "t">>,
                    <<"c", ".", "J", "P", "G">> >>
    /\ Len(scanned.image_paths) = 2

(***************************************************************************)
(* Properties of start_conversion, stated for SpecRun.                     *)
(***************************************************************************)

\* The scans with which a run cannot start: no folder chosen, process_folder
\* raised for a path that is no directory, or no image was found.
FailedScans == {scan \in ScanOutcomes(MaxImages) : scan.kind # "listed" \/ scan.n = 0}

\* A step of start_conversion() that got as far as the scan and the scan
\* gave scan.
StartScans(scan) ==
    /\ \/ /\ guiPc = "idle" /\ start_btn
          /\ ~(conversion_thread # 0 /\ isRunning(threads[conversion_thread]))
       \/ /\ guiPc = "start_wait"
          /\ WaitReturns(threads[conversion_thread])
    /\ \E llmOk \in BOOLEAN, mode \in Modes :
          /\ llm \/ llmOk
          /\ StartRest(SingleRun, threads, llmOk, scan, mode)

\* C12: when the folder is missing, is no directory or holds no image,
\* start_conversion() ends at the scan: no ConversionThread is created or
\* started, chain.invoke is not called, no signal is emitted and no outcome
\* is added or removed.
C12_FailedScanStartsNothing ==
    [][\A scan \in FailedScans :
           StartScans(scan) =>
               /\ threads' = threads
               /\ conversion_thread' = conversion_thread
               /\ queue' = queue
               /\ results' = results
               /\ <<start_btn', stop_btn'>> = <<start_btn, stop_btn>>]_vars

\* start_conversion() created the client and then failed at the scan: the
\* client exists and no thread was ever created.
C12_Witness ==
    /\ llm
    /\ \A t \in ThreadIds : threads[t].state = "none"
    /\ queue = <<>> /\ results = <<>>
    /\ guiPc = "idle"

(***************************************************************************)
(* Properties of the chain and of the outcomes made from its calls,        *)
(* stated for SpecChain.                                                   *)
(***************************************************************************)

\* The paths call k of the job is about.
UnitOf(k) == IF job.mode = "combined" THEN job.image_paths ELSE <<job.image_paths[k]>>

\* The answer of the service at call k cannot become a SQLAlchemyModels: it
\* is not parsable, or no word of its code is declarative_base.
InvalidAnswer(k) ==
    LET r == job.responses[k] IN
    \/ r.kind = "unparsable"
    \/ /\ r.kind = "json"
       /\ \A l \in 1..Len(r.code) : \A w \in 1..Len(r.code[l].words) :
              r.code[l].words[w] # "declarative_base"

\* The text is an error message and nothing else.
IsErrorText(text) == Len(text) = 1 /\ ~text[1].comment /\ text[1].words[1] = "error:"

\* C13: a response without declarative_base in its code, or one that cannot
\* be parsed, never becomes a success: what the thread emits for the unit is
\* an error text, its ProcessingResult has is_error, and the console
\* application saves nothing for it.
C13_InvalidAnswerIsFailure ==
    /\ \A k \in DOMAIN emitted :
          InvalidAnswer(k) =>
              /\ emitted[k].data.is_str
              /\ IsErrorText(emitted[k].data.text)
              /\ ProcessingResult(emitted[k].data).is_error
    /\ \A k \in DOMAIN console.invoked :
          InvalidAnswer(k) => Len(console.saved) < k

\* A run whose answer has code without the marker, emitted as an error.
C13_Witness ==
    \E k \in DOMAIN emitted :
        /\ job.responses[k].kind = "json"
        /\ job.responses[k].code # <<>>
        /\ InvalidAnswer(k)
        /\ emitted[k].data.is_str
        /\ console.ran

UploadedIds(unit) ==
    LET ok(path) == path \in job.uploadable
        sent == SelectSeq(unit, ok)
    IN  [i \in 1..Len(sent) |-> <<"id">> \o sent[i]]

\* C15: a path whose upload fails gives no id and stops nothing: the ids
\* sent with the request are those of the paths uploaded, in the order of
\* the paths, and the unit succeeds whenever the answer is valid.
C15_UploadFailureSkipsPath ==
    \A k \in DOMAIN emitted :
        /\ emitted[k].attachments = UploadedIds(UnitOf(k))
        /\ (job.responses[k].kind = "json" /\ ~InvalidAnswer(k)) => ~emitted[k].data.is_str

\* A combined run of two paths, the first of which failed to upload, that
\* sent the id of the second and succeeded.
C15_Witness ==
    /\ job.mode = "combined" /\ Len(job.image_paths) = 2
    /\ job.image_paths[1] \notin job.uploadable
    /\ job.image_paths[2] \in job.uploadable
    /\ Len(emitted) = 1
    /\ Len(emitted[1].attachments) = 1
    /\ ~emitted[1].data.is_str

\* The name is the file name of the path, with or without its extension.
Names(name, path, whole) ==
    IF whole THEN path = PathOf(name)
    ELSE LET e == Len(PathOf(name)) + 1 IN
         /\ name # <<>>
         /\ e <= Len(path)
         /\ SubSeq(path, 1, e - 1) = PathOf(name)
         /\ path[e] = "."
         /\ \A j \in (e + 1)..Len(path) : path[j] # "."

\* The text is the code of the answer with one comment line before it that
\* names every path of the unit.
IsCommentedCode(text, answer, unit, whole) ==
    /\ Len(text) = Len(answer) + 1
    /\ text[1].comment
    /\ Len(text[1].names) = Len(unit)
    /\ \A i \in 1..Len(unit) : Names(text[1].names[i], unit[i], whole)
    /\ \A l \in 1..Len(answer) : text[l + 1] = answer[l]

\* C20: the code of a successful unit is the code of the service with one
\* comment line before it that names the images of the unit, all of them
\* in combined mode and the one in separate mode, and it is history[0] of
\* the ProcessingResult; a failed unit carries its error text only.  The
\* console application stores the same, naming the image without its
\* extension in separate mode.
C20_CodeCarriesSourceComment ==
    /\ \A k \in DOMAIN emitted :
          LET out == emitted[k] IN
          IF out.data.is_str
          THEN /\ IsErrorText(out.data.text)
               /\ ProcessingResult(out.data).history = <<out.data.text>>
          ELSE /\ IsCommentedCode(out.data.text, job.responses[k].code, UnitOf(k), TRUE)
               /\ ProcessingResult(out.data).history[1] = out.data.text
    /\ \A k \in DOMAIN console.saved :
          \E first \in 1..Len(console.saved[k].content) :
              IsCommentedCode(SubSeq(console.saved[k].content, first,
                                     Len(console.saved[k].content)),
                              job.responses[k].code, UnitOf(k), job.mode = "combined")

\* A run over two images with a unit that succeeded with code of two lines:
\* its text has three lines, the first one the comment, and the console
\* application saved a file.
C20_Witness ==
    /\ Len(job.image_paths) = 2
    /\ \E k \in DOMAIN emitted :
          /\ ~emitted[k].data.is_str
          /\ Len(emitted[k].data.text) = 3
          /\ emitted[k].data.text[1].comment
    /\ console.saved # <<>>

(***************************************************************************)
(* Properties of the settings, stated for SpecSettings.                    *)
(***************************************************************************)

\* C16 (as stated): when save_settings() meets a field it cannot convert,
\* every field of the ModelConfig keeps the value it had before the call.
C16_FailedSaveKeepsConfig ==
    (saved.calls > 0 /\ saved.raised) => config = saved.before

\* C17 (as stated): the ModelConfig of a run and of every result made from
\* it is the configuration in effect when the run started, whatever
\* save_settings() does during the run or after it.
C17_RunConfigIsSnapshot ==
    carried.started => CarriedConfig = carried.at_start

(***************************************************************************)
(* Properties of the names of the files written, stated for SpecChain.     *)
(***************************************************************************)

\* The name a result is to be saved under: models_<model name>.py for a
\* combined one, <image name without extension>_orm.py otherwise.
ConventionalName(name, k) ==
    IF job.mode = "combined"
    THEN name = <<"models_", "GigaChat", "_", "2", "_", "Pro", ".py">>
    ELSE /\ Len(name) > 1
         /\ name[Len(name)] = "_orm.py"
         /\ Names(SubSeq(name, 1, Len(name) - 1), job.image_paths[k], FALSE)

\* C18 (as stated): save_code(), save_all_results() and the console's
\* save_results() name the file of a result in the same way.
C18_SavePathsAgreeOnNames ==
    /\ \A f \in DOMAIN files.save_code :
          ConventionalName(files.save_code[f].name, files.save_code[f].of)
    /\ \A f \in DOMAIN files.save_all_results :
          ConventionalName(files.save_all_results[f].name, files.save_all_results[f].of)
    /\ \A f \in DOMAIN console.saved : ConventionalName(console.saved[f].name, f)

\* What holds: save_code() and the console application follow the
\* convention in both modes, save_all_results() in separate mode.
C18_NamesExceptCombinedSaveAll ==
    /\ \A f \in DOMAIN files.save_code :
          ConventionalName(files.save_code[f].name, files.save_code[f].of)
    /\ \A f \in DOMAIN files.save_all_results :
          job.mode = "separate" =>
              ConventionalName(files.save_all_results[f].name, files.save_all_results[f].of)
    /\ \A f \in DOMAIN console.saved : ConventionalName(console.saved[f].name, f)

(***************************************************************************)
(* Properties of the prompt, stated for SpecPrompt.                        *)
(***************************************************************************)

HasPlaceholder(text) == \E k \in 1..Len(text) : text[k] = "{format_instructions}"

\* C19: a text without {format_instructions} gets it as a last block after
\* an empty line, with a warning; a text that holds it is taken as it is,
\* without one.  The prompt assembled holds the placeholder, and assembling
\* it once more leaves it as it is.
C19_PlaceholderAddedOnce ==
    assembled.op # "none" =>
        /\ HasPlaceholder(system_prompt)
        /\ ~HasPlaceholder(assembled.src) =>
               /\ system_prompt = assembled.src \o <<"\n\n", "{format_instructions}">>
               /\ assembled.warned
        /\ HasPlaceholder(assembled.src) =>
               /\ system_prompt = assembled.src
               /\ ~assembled.warned
        /\ (assembled.again /\ assembled.src = assembled.before) =>
               system_prompt = assembled.before

\* The prompt that had got the placeholder added was assembled once more.
C19_Witness ==
    /\ assembled.op = "apply_prompt"
    /\ assembled.again
    /\ assembled.src = assembled.before
    /\ assembled.src = <<"convert the diagrams", "\n\n", "{format_instructions}">>
    /\ DEFAULT_SYSTEM_PROMPT = <<"convert the diagrams">>
    /\ system_prompt = assembled.src

(***************************************************************************)
(* Properties of the token usage, stated for SpecChain.                    *)
(***************************************************************************)

\* C21 (as stated): the token usage recorded with a successful outcome is
\* the one the service reported for the call.
C21_TokenUsageIsReported ==
    \A k \in DOMAIN emitted :
        ~emitted[k].data.is_str => emitted[k].token_usage = job.responses[k].token_usage

\* C27 (as stated): a unit all of whose uploads failed is not sent to the
\* service with no attachment: it ends as a failure.
C27_NoCallWithoutAttachment ==
    \A k \in DOMAIN emitted :
        emitted[k].attachments = <<>> => emitted[k].data.is_str

\* C29 (as stated): save_all_results() writes every result of a separate
\* run to a file of its own: no two results get the same file name.
C29_SeparateFilesDistinct ==
    job.mode = "separate" =>
        \A f, g \in DOMAIN files.save_all_results :
            f # g => files.save_all_results[f].name # files.save_all_results[g].name

(***************************************************************************)
(* Further properties of one ProcessingResult, stated for SpecHistory.     *)
(***************************************************************************)

\* C22: undo() moves the pointer back by one when it is above 0 and leaves
\* it at 0 otherwise; redo() moves it forward by one when it is below the
\* last index and leaves it there otherwise; each returns the text at the
\* pointer it leaves and neither touches the history.  has_undo() and
\* has_redo() are true exactly when undo() and redo() would move the
\* pointer.
C22_UndoRedoMoveByOne ==
    /\ lastOp = "undo" =>
          /\ result.history = before.history
          /\ result.current_version =
                 IF before.current_version > 0 THEN before.current_version - 1 ELSE 0
          /\ lastRet = result.history[result.current_version + 1]
    /\ lastOp = "redo" =>
          /\ result.history = before.history
          /\ result.current_version =
                 IF before.current_version < Len(before.history) - 1
                 THEN before.current_version + 1 ELSE before.current_version
          /\ lastRet = result.history[result.current_version + 1]
    /\ has_undo(result) <=> undo(result).pr.current_version # result.current_version
    /\ has_redo(result) <=> redo(result).pr.current_version # result.current_version

\* undo() that moved the pointer from the last of three versions to the
\* middle one, where both undo and redo can move.
C22_Witness ==
    /\ lastOp = "undo"
    /\ before.current_version = 2
    /\ result.current_version = 1
    /\ Len(result.history) = 3
    /\ has_undo(result) /\ has_redo(result)

\* The result after k calls of redo().
RECURSIVE RedoTimes(_, _)
RedoTimes(r, k) == IF k = 0 THEN r ELSE RedoTimes(redo(r).pr, k - 1)

\* C23: restore_original() puts the pointer at 0 and leaves the history as
\* it is, so that k calls of redo() reach version k for every later
\* version; a commit directly after it leaves the history [original,
\* newText].
C23_RestoreKeepsHistory ==
    /\ lastOp = "restore_original" =>
          /\ result.current_version = 0
          /\ result.history = before.history
          /\ \A k \in 1..(Len(before.history) - 1) :
                 /\ RedoTimes(result, k).current_version = k
                 /\ code(RedoTimes(result, k)) = before.history[k + 1]
    /\ (prevOp = "restore_original" /\ lastOp = "commit") =>
          /\ result.history = <<data.text, lastArg>>
          /\ result.current_version = 1

\* A commit directly after restore_original() on a history of three
\* versions.
C23_Witness ==
    /\ prevOp = "restore_original" /\ lastOp = "commit"
    /\ Len(before2.history) = 3
    /\ Len(before.history) = 3
    /\ before.current_version = 0
    /\ Len(result.history) = 2

(***************************************************************************)
(* Further properties of a conversion run, stated for SpecRun and Spec.    *)
(***************************************************************************)

\* C25 (as stated): a run sends a progress notification at the start of the
\* assembly, at the start and at the completion of every unit and at the
\* end of the batch, so a separate run over N paths that was not stopped
\* sends at least 2N notifications for its units besides the two of the
\* assembly and the last one.
C25_ProgressAtUnitCompletion ==
    \A t \in ThreadIds :
        LET th == threads[t] IN
        (th.state = "finished" /\ th.mode = "separate" /\ th.chain /\ ~th.stopped.called) =>
            Len(th.progress) >= 2 * Len(th.image_paths) + 3

\* C26 (as stated): once start_conversion() began a new run, results holds
\* outcomes of that run only.
C26_ResultsOfCurrentRunOnly ==
    \A k \in 1..Len(results) : results[k].thread = conversion_thread

(***************************************************************************)
(* A further property of the settings, stated for SpecSettings.            *)
(***************************************************************************)

\* C30 (as stated): the client a run calls the service with was made from
\* the configuration in effect when the run started, also when an earlier
\* run of the session had made a client and save_settings() then changed
\* the configuration without an error.
C30_ClientFollowsSettings ==
    (carried.started /\ ~saved.raised) =>
        (client.made /\ client.with = carried.at_start)

(***************************************************************************)
(* Properties of the result views, stated for SpecEdit.                    *)
(***************************************************************************)
\* Every result the window holds has the history it had before the step.
HistoriesKept ==
    \A k \in DOMAIN window.results :
        window'.results[k].history = window.results[k].history

\* Every result the window holds has the pointer it had before the step.
PointersKept ==
    \A k \in DOMAIN window.results :
        window'.results[k].current_version = window.results[k].current_version

\* C24: the history of every result changes only in save_edits: undo_changes,
\* redo_changes, restore_original, show_previous_result, show_next_result,
\* entering edit mode, cancel_edits, typing and the arrival of a further
\* outcome of the worker thread leave every history as it was, and the two
\* navigation handlers and cancel_edits leave every pointer as it was too.
C24_HistoryChangesOnlyByCommit ==
    [][/\ lastEdit' # "save_edits" => HistoriesKept
       /\ lastEdit' \in {"show_previous_result", "show_next_result", "cancel_edits"}
              => PointersKept]_vars

\* The operator has gone on to the second result after committing one
\* version to the first, which still has both versions and points at the
\* committed one.
C24_Witness ==
    /\ lastEdit = "show_next_result"
    /\ window.current_result_index = 1
    /\ Len(window.results[1].history) = 2
    /\ window.results[1].current_version = 1

\* C28 (as stated): outside edit mode, after save_edits, undo_changes,
\* redo_changes, restore_original or a navigation handler has run, the undo
\* button is enabled exactly when has_undo() holds of the displayed result
\* and the redo button exactly when has_redo() holds of it.
C28_ControlsFollowHistory ==
    (/\ lastEdit \in {"save_edits", "undo_changes", "redo_changes", "restore_original",
                       "show_previous_result", "show_next_result"}
     /\ window.readOnly
     /\ window.results # <<>>)
        => /\ window.undo_btn = has_undo(current(window))
           /\ window.redo_btn = has_redo(current(window))

====
